---- MODULE Spec2Model ----
(***************************************************************************)
(* Model of scars' CF file abstraction: cf::file::File (src/src/cf/file.rs) *)
(* over a small file system, with the error conversions of                 *)
(* cf::common_types.  One File object is alive at a time; constructing a   *)
(* new one with open/create drops the previous one.                        *)
(***************************************************************************)
EXTENDS Integers, Sequences, FiniteSets, TLC

\* ------------------------------------------------------------- bounds
\* longest file and longest buffer explored
MaxSize == 2
\* number of File objects constructed in one behaviour
MaxHandles == 2

\* ------------------------------------------------------------- inputs
Names == {"a.bin"}
Octets == {1, 2}

\* ErrorKind values the platform is made to report for a failing primitive
FaultKinds == {"NotFound", "PermissionDenied", "Interrupted", "Other"}

SeqsUpTo(n) == UNION {[1..k -> Octets] : k \in 0..n}

Min(a, b) == IF a < b THEN a ELSE b

\* ------------------------------------------------------------- errors
\* marker for the todo!() arms: the conversion panics
Todo == "todo!"

\* enum ErrorNumberType
ErrorNumberType ==
  {"CF_NOTSET", "CF_E2BIG", "CF_EACCES", "CF_EAGAIN", "CF_EBADF", "CF_EBADMSG",
   "CF_EBUSY", "CF_ECANCELED", "CF_ECHILD", "CF_EDEADLK", "CF_EDOM", "CF_EEXIST",
   "CF_EFAULT", "CF_EFBIG", "CF_EINPROGRESS", "CF_EINTR", "CF_EINVAL", "CF_EIO",
   "CF_EISDIR", "CF_EMFILE", "CF_EMLINK", "CF_EMSGSIZE", "CF_ENAMETOOLONG",
   "CF_ENFILE", "CF_ENODEV", "CF_ENOENT", "CF_ENOEXEC", "CF_ENOLCK", "CF_ENOMEM",
   "CF_ENOSPC", "CF_ENOSYS", "CF_ENOTDIR", "CF_ENOTEMPTY", "CF_ENOTSUP",
   "CF_ENOTTY", "CF_ENXIO", "CF_EPERM", "CF_EPIPE", "CF_ERANGE", "CF_EROFS",
   "CF_ESPIPE", "CF_ESRCH", "CF_ETIMEDOUT", "CF_EXDEV"}

\* impl From<ErrorKind> for ErrorNumberType
ErrorNumberFromKind(kind) ==
  CASE kind = "NotFound"         -> "CF_ENOENT"
    [] kind = "PermissionDenied" -> "CF_EPERM"
    [] OTHER                     -> Todo

\* impl From<std::io::Error> for FileError  (applied by every `?` on an io::Result)
FileErrorFromIo(kind) ==
  IF ErrorNumberFromKind(kind) = Todo
    THEN [res |-> "panic", code |-> "-"]
    ELSE [res |-> "IOException", code |-> ErrorNumberFromKind(kind)]

\* impl From<NoneFileHandleError> for FileError
FileErrorFromNoneMut == [res |-> "FileException", code |-> "CF_NOTSET"]

FileErrorFromNone == [res |-> "FileException", code |-> "CF_EBADF"]

FileErrorInvalidFilePointer == [res |-> "InvalidFilePointer", code |-> "-"]

OkResult == [res |-> "Ok", code |-> "-"]

\* ------------------------------------------------------------- state
VARIABLES
  fs,            \* the resources under root: name -> [exists, data]
  hid,           \* number of File objects constructed so far (0: none yet)
  file_name,     \* File.file_name
  file_handle,   \* File.file_handle: Option<std::fs::File> as [some, access, pos]
  file_pointer,  \* File.file_pointer
  pc,            \* "idle", "writing" (inside the loop of write) or "panicked"
  w,             \* locals of the running write: buffer, actual, last chunk result
  last,          \* the last completed call: its arguments, pre-state and result
  rt,            \* progress of the create/write/seek/read round trip on this handle
  closes         \* close calls made on this File object, counted up to 2

vars == <<fs, hid, file_name, file_handle, file_pointer, pc, w, last, rt, closes>>

NoResource == [exists |-> FALSE, data |-> <<>>]

\* Option::None for file_handle
NoneHandle == [some |-> FALSE, access |-> "-", pos |-> 0]

\* a std::fs::File just returned by std::fs::File::open (read-only) or
\* std::fs::File::create (write-only), positioned at 0
SomeHandle(access) == [some |-> TRUE, access |-> access, pos |-> 0]

NoWrite == [buffer |-> <<>>, actual |-> 0, chunk |-> -1, chunks |-> 0,
            pre |-> 0, size |-> 0]

NoRoundTrip == [stage |-> 0, bytes |-> <<>>]

\* length of the resource the handle refers to (metadata().len())
CurrentSize == IF file_name \in Names THEN Len(fs[file_name].data) ELSE 0

\* record of a completed call
Done(op, r, arg, n, data, fault) ==
  [op |-> op, res |-> r.res, code |-> r.code,
   wasOpen |-> file_handle.some, pre |-> file_pointer, size |-> CurrentSize,
   arg |-> arg, n |-> n, data |-> data, fault |-> fault,
   name |-> file_name, chunks |-> 0]

\* effect of a returned value or a panic on the control state
After(r) == IF r.res = "panic" THEN "panicked" ELSE "idle"

Init ==
  /\ fs \in [Names -> {NoResource, [exists |-> TRUE, data |-> <<1, 2>>]}]
  /\ hid = 0
  /\ file_name = ""
  /\ file_handle = NoneHandle
  /\ file_pointer = 0
  /\ pc = "idle"
  /\ w = NoWrite
  /\ last = [op |-> "none", res |-> "Ok", code |-> "-", wasOpen |-> FALSE,
             pre |-> 0, size |-> 0, arg |-> 0, n |-> 0, data |-> <<>>,
             fault |-> "none", name |-> "", chunks |-> 0]
  /\ rt = NoRoundTrip
  /\ closes = 0

\* ------------------------------------------------------------- open / create
\* a failing open or create returns Err: no File object is constructed
ConstructFails(op, name, kind, fault) ==
  /\ last' = [Done(op, FileErrorFromIo(kind), 0, 0, <<>>, fault)
                EXCEPT !.size = IF fs[name].exists THEN Len(fs[name].data) ELSE -1]
  /\ pc' = After(FileErrorFromIo(kind))
  /\ UNCHANGED <<fs, hid, file_name, file_handle, file_pointer, w, rt, closes>>

Constructed(op, name, access) ==
  /\ hid' = hid + 1
  /\ file_name' = name
  /\ file_handle' = SomeHandle(access)
  /\ file_pointer' = 0
  /\ last' = [Done(op, OkResult, 0, 0, <<>>, "none")
                EXCEPT !.size = IF fs[name].exists THEN Len(fs[name].data) ELSE -1]
  /\ pc' = "idle"
  /\ w' = NoWrite
  /\ closes' = 0

\* File::open
Open(name) ==
  /\ pc = "idle"
  /\ hid < MaxHandles
  /\ \/ /\ ~fs[name].exists
        /\ ConstructFails("open", name, "NotFound", "missing")
     \/ /\ fs[name].exists
        /\ \E kind \in FaultKinds \ {"NotFound"} :
             ConstructFails("open", name, kind, "env")
     \/ /\ fs[name].exists
        /\ Constructed("open", name, "read")
        /\ rt' = NoRoundTrip
        /\ UNCHANGED fs

\* create that opens an existing resource without truncating it
CreateKeepMut(name) ==
  /\ pc = "idle"
  /\ hid < MaxHandles
  /\ \/ \E kind \in FaultKinds : ConstructFails("create", name, kind, "env")
     \/ /\ Constructed("create", name, "write")
        /\ fs' = [fs EXCEPT ![name] = [exists |-> TRUE, data |-> @.data]]
        /\ rt' = [stage |-> 1, bytes |-> <<>>]

\* File::create
Create(name) ==
  /\ pc = "idle"
  /\ hid < MaxHandles
  /\ \/ \E kind \in FaultKinds : ConstructFails("create", name, kind, "env")
     \/ /\ Constructed("create", name, "write")
        /\ fs' = [fs EXCEPT ![name] = [exists |-> TRUE, data |-> <<>>]]
        /\ rt' = [stage |-> 1, bytes |-> <<>>]

\* ------------------------------------------------------------- close
\* close written as `self.file_handle.take().unwrap()`: aborts on a closed handle
CloseMut ==
  /\ pc = "idle"
  /\ hid > 0
  /\ file_handle' = NoneHandle
  /\ last' = Done("close", IF file_handle.some THEN OkResult
                                               ELSE [res |-> "panic", code |-> "-"],
                  0, 0, <<>>, "none")
  /\ pc' = IF file_handle.some THEN "idle" ELSE "panicked"
  /\ rt' = NoRoundTrip
  /\ closes' = Min(closes + 1, 2)
  /\ UNCHANGED <<fs, hid, file_name, file_pointer, w>>

\* close that also rewinds the cursor
CloseRewindMut ==
  /\ pc = "idle"
  /\ hid > 0
  /\ file_handle' = NoneHandle
  /\ file_pointer' = 0
  /\ last' = Done("close", OkResult, 0, 0, <<>>, "none")
  /\ rt' = NoRoundTrip
  /\ closes' = Min(closes + 1, 2)
  /\ UNCHANGED <<fs, hid, file_name, pc, w>>

\* File::close
Close ==
  /\ pc = "idle"
  /\ hid > 0
  /\ file_handle' = NoneHandle
  /\ last' = Done("close", OkResult, 0, 0, <<>>, "none")
  /\ rt' = NoRoundTrip
  /\ closes' = Min(closes + 1, 2)
  /\ UNCHANGED <<fs, hid, file_name, file_pointer, pc, w>>

\* ------------------------------------------------------------- native file
\* result counts std::fs::File::read may return for a buffer of length len with
\* avail octets between the native offset and end-of-file: 0 only for an empty
\* buffer or at end-of-file, otherwise any count up to both
ReadCounts(len, avail) ==
  IF len = 0 \/ avail <= 0 THEN {0} ELSE 1..Min(len, avail)

\* the resource after std::fs::File::write stored bytes at offset pos
WriteAt(data, pos, bytes) ==
  LET end == pos + Len(bytes)
      n   == IF end > Len(data) THEN end ELSE Len(data)
  IN  [i \in 1..n |-> IF i > pos /\ i <= end THEN bytes[i - pos]
                      ELSE IF i <= Len(data) THEN data[i] ELSE 0]

\* `self.file_pointer += result as u64`
AdvanceMut(fp, result) == result

Advance(fp, result) == fp + result

\* ------------------------------------------------------------- read
ReadReturns(len, r, n, data, fault) ==
  /\ last' = Done("read", r, len, n, data, fault)
  /\ pc' = After(r)
  /\ rt' = IF rt.stage = 3 /\ len = Len(rt.bytes) /\ fault /= "env"
             THEN [rt EXCEPT !.stage = 4] ELSE NoRoundTrip
  /\ UNCHANGED <<fs, hid, file_name, w, closes>>

\* read written with `self.file_handle.take()`: a successful read gives the
\* native file away and leaves None behind
ReadTakeMut(len) ==
  /\ pc = "idle"
  /\ hid > 0
  /\ \/ /\ ~file_handle.some
        /\ ReadReturns(len, FileErrorFromNone, 0, <<>>, "none")
        /\ UNCHANGED <<file_handle, file_pointer>>
     \/ /\ file_handle.some
        /\ file_handle.access /= "read"
        /\ ReadReturns(len, FileErrorFromIo("Uncategorized"), 0, <<>>, "access")
        /\ UNCHANGED <<file_handle, file_pointer>>
     \/ /\ file_handle.some
        /\ \E kind \in FaultKinds :
             ReadReturns(len, FileErrorFromIo(kind), 0, <<>>, "env")
        /\ UNCHANGED <<file_handle, file_pointer>>
     \/ /\ file_handle.some
        /\ file_handle.access = "read"
        /\ \E result \in ReadCounts(len, CurrentSize - file_handle.pos) :
             /\ file_handle' = NoneHandle
             /\ file_pointer' = Advance(file_pointer, result)
             /\ ReadReturns(len, OkResult, result,
                            SubSeq(fs[file_name].data, file_handle.pos + 1,
                                   file_handle.pos + result), "none")

\* File::read
Read(len) ==
  /\ pc = "idle"
  /\ hid > 0
  /\ \/ /\ ~file_handle.some
        /\ ReadReturns(len, FileErrorFromNone, 0, <<>>, "none")
        /\ UNCHANGED <<file_handle, file_pointer>>
     \/ /\ file_handle.some
        /\ file_handle.access /= "read"
        /\ ReadReturns(len, FileErrorFromIo("Uncategorized"), 0, <<>>, "access")
        /\ UNCHANGED <<file_handle, file_pointer>>
     \/ /\ file_handle.some
        /\ \E kind \in FaultKinds :
             ReadReturns(len, FileErrorFromIo(kind), 0, <<>>, "env")
        /\ UNCHANGED <<file_handle, file_pointer>>
     \/ /\ file_handle.some
        /\ file_handle.access = "read"
        /\ \E result \in ReadCounts(len, CurrentSize - file_handle.pos) :
             /\ file_handle' = [file_handle EXCEPT !.pos = @ + result]
             /\ file_pointer' = Advance(file_pointer, result)
             /\ ReadReturns(len, OkResult, result,
                            SubSeq(fs[file_name].data, file_handle.pos + 1,
                                   file_handle.pos + result), "none")

\* ------------------------------------------------------------- write
\* `while actual < target`
WriteLoopContinuesMut(actual, target) == actual + 1 < target

WriteLoopContinues(actual, target) == actual < target

\* the cursor when `h.write(..)?` returns the error: left as the earlier
\* iterations advanced it (pre is its value at the call)
PointerAfterFailedWriteMut(fp, pre) == pre

PointerAfterFailedWrite(fp, pre) == fp

WriteReturns(buffer, r, pre, size, n, chunks, fault) ==
  /\ last' = [op |-> "write", res |-> r.res, code |-> r.code, wasOpen |-> TRUE,
              pre |-> pre, size |-> size, arg |-> Len(buffer), n |-> n,
              data |-> buffer, fault |-> fault, name |-> file_name,
              chunks |-> chunks]
  /\ pc' = After(r)
  /\ w' = NoWrite
  /\ closes' = closes
  /\ rt' = IF rt.stage = 1 /\ r.res = "Ok" /\ pre = 0 /\ Len(buffer) > 0
             THEN [stage |-> 2, bytes |-> buffer] ELSE NoRoundTrip

\* File::write up to the first test of the loop
WriteCall(buffer) ==
  /\ pc = "idle"
  /\ hid > 0
  /\ file_pointer + Len(buffer) <= MaxSize
  /\ \/ /\ ~file_handle.some
        /\ last' = Done("write", FileErrorFromNone, Len(buffer), 0, buffer, "none")
        /\ rt' = NoRoundTrip
        /\ UNCHANGED <<fs, hid, file_name, file_handle, file_pointer, pc, w, closes>>
     \/ /\ file_handle.some
        /\ ~WriteLoopContinues(0, Len(buffer))
        /\ WriteReturns(buffer, OkResult, file_pointer, CurrentSize, 0, 0, "none")
        /\ UNCHANGED <<fs, hid, file_name, file_handle, file_pointer>>
     \/ /\ file_handle.some
        /\ WriteLoopContinues(0, Len(buffer))
        /\ pc' = "writing"
        /\ w' = [buffer |-> buffer, actual |-> 0, chunk |-> -1, chunks |-> 0,
                 pre |-> file_pointer, size |-> CurrentSize]
        /\ UNCHANGED <<fs, hid, file_name, file_handle, file_pointer, last, rt,
                       closes>>

\* one iteration of the loop of File::write, and the return that follows it
WriteChunk ==
  /\ pc = "writing"
  /\ \/ /\ file_handle.access /= "write"
        /\ WriteReturns(w.buffer, FileErrorFromIo("Uncategorized"), w.pre, w.size,
                        w.actual, w.chunks, "access")
        /\ file_pointer' = PointerAfterFailedWrite(file_pointer, w.pre)
        /\ UNCHANGED <<fs, hid, file_name, file_handle>>
     \/ /\ \E kind \in FaultKinds :
             WriteReturns(w.buffer, FileErrorFromIo(kind), w.pre, w.size,
                          w.actual, w.chunks, "env")
        /\ file_pointer' = PointerAfterFailedWrite(file_pointer, w.pre)
        /\ UNCHANGED <<fs, hid, file_name, file_handle>>
     \/ /\ file_handle.access = "write"
        /\ \E result \in 0..(Len(w.buffer) - w.actual) :
             /\ fs' = [fs EXCEPT ![file_name].data =
                         WriteAt(@, file_handle.pos,
                                 SubSeq(w.buffer, w.actual + 1, w.actual + result))]
             /\ file_handle' = [file_handle EXCEPT !.pos = @ + result]
             /\ file_pointer' = Advance(file_pointer, result)
             /\ IF WriteLoopContinues(w.actual + result, Len(w.buffer))
                  THEN /\ w' = [w EXCEPT !.actual = @ + result, !.chunk = result,
                                         !.chunks = @ + Min(result, 1)]
                       /\ UNCHANGED <<pc, last, rt, closes>>
                  ELSE WriteReturns(w.buffer, OkResult, w.pre, w.size,
                                    w.actual + result, w.chunks + Min(result, 1),
                                    "none")
             /\ UNCHANGED <<hid, file_name>>

\* ------------------------------------------------------------- size_of
\* File::size_of
SizeOf ==
  /\ pc = "idle"
  /\ hid > 0
  /\ \/ /\ ~file_handle.some
        /\ last' = Done("size_of", FileErrorFromNone, 0, 0, <<>>, "none")
        /\ pc' = "idle"
     \/ /\ file_handle.some
        /\ \E kind \in FaultKinds :
             /\ last' = Done("size_of", FileErrorFromIo(kind), 0, 0, <<>>, "env")
             /\ pc' = After(FileErrorFromIo(kind))
     \/ /\ file_handle.some
        /\ last' = Done("size_of", OkResult, 0, CurrentSize, <<>>, "none")
        /\ pc' = "idle"
  /\ rt' = NoRoundTrip
  /\ UNCHANGED <<fs, hid, file_name, file_handle, file_pointer, w, closes>>

\* ------------------------------------------------------------- set_file_pointer
\* `file_pointer > h.metadata()?.len()`
PointerBeyondEndMut(position, size) == position > size + 1

PointerBeyondEnd(position, size) == position > size

\* `self.file_pointer = file_pointer`
NewPointerMut(position, old) == old

NewPointer(position, old) == position

SeekReturns(position, r, fault) ==
  /\ last' = Done("set_file_pointer", r, position, 0, <<>>, fault)
  /\ pc' = After(r)
  /\ rt' = IF rt.stage = 2 /\ position = 0 /\ r.res = "Ok"
             THEN [rt EXCEPT !.stage = 3] ELSE NoRoundTrip
  /\ UNCHANGED <<fs, hid, file_name, w, closes>>

\* File::set_file_pointer
SetFilePointer(position) ==
  /\ pc = "idle"
  /\ hid > 0
  /\ \/ /\ ~file_handle.some
        /\ SeekReturns(position, FileErrorFromNone, "none")
        /\ UNCHANGED <<file_handle, file_pointer>>
     \/ /\ file_handle.some
        /\ \E kind \in FaultKinds :
             SeekReturns(position, FileErrorFromIo(kind), "metadata")
        /\ UNCHANGED <<file_handle, file_pointer>>
     \/ /\ file_handle.some
        /\ PointerBeyondEnd(position, CurrentSize)
        /\ SeekReturns(position, FileErrorInvalidFilePointer, "none")
        /\ UNCHANGED <<file_handle, file_pointer>>
     \/ /\ file_handle.some
        /\ ~PointerBeyondEnd(position, CurrentSize)
        /\ \E kind \in FaultKinds :
             SeekReturns(position, FileErrorFromIo(kind), "seek")
        /\ UNCHANGED <<file_handle, file_pointer>>
     \/ /\ file_handle.some
        /\ ~PointerBeyondEnd(position, CurrentSize)
        /\ file_handle' = [file_handle EXCEPT !.pos = position]
        /\ file_pointer' = NewPointer(position, file_pointer)
        /\ SeekReturns(position, OkResult, "none")

\* ------------------------------------------------------------- attributes
\* File::file_name
FileName ==
  /\ pc = "idle"
  /\ hid > 0
  /\ last' = Done("file_name", OkResult, 0, 0, <<>>, file_name)
  /\ rt' = NoRoundTrip
  /\ UNCHANGED <<fs, hid, file_name, file_handle, file_pointer, pc, w, closes>>

\* File::file_pointer
FilePointer ==
  /\ pc = "idle"
  /\ hid > 0
  /\ last' = Done("file_pointer", OkResult, 0, file_pointer, <<>>, "none")
  /\ rt' = NoRoundTrip
  /\ UNCHANGED <<fs, hid, file_name, file_handle, file_pointer, pc, w, closes>>

Next ==
  \/ \E name \in Names : Open(name)
  \/ \E name \in Names : Create(name)
  \/ \E len \in 0..MaxSize : Read(len)
  \/ \E buffer \in SeqsUpTo(MaxSize) : WriteCall(buffer)
  \/ WriteChunk
  \/ SizeOf
  \/ \E position \in 0..(MaxSize + 1) : SetFilePointer(position)
  \/ FileName
  \/ FilePointer
  \/ Close

Spec == Init /\ [][Next]_vars

\* ------------------------------------------------------------- properties
\* a call on the File object has returned (or panicked) and nothing ran since
Returned(op) == pc /= "writing" /\ hid > 0 /\ last.op = op

NonCloseOps == {"read", "write", "size_of", "set_file_pointer"}

\* C1: at the end of every operation on a handle that returns success, the
\* stored cursor lies between 0 and the current size of the resource.
C1_CursorWithinSize ==
  (/\ pc /= "writing"
   /\ hid > 0
   /\ last.res = "Ok"
   /\ last.op \in NonCloseOps \cup {"open", "create", "close"})
  => (0 <= file_pointer /\ file_pointer <= CurrentSize)

\* C1 witness: a successful set_file_pointer to the very end of a non-empty resource
C1_Witness ==
  /\ Returned("set_file_pointer")
  /\ last.res = "Ok"
  /\ last.arg = CurrentSize
  /\ CurrentSize > 0
  /\ file_pointer = CurrentSize

\* C2: a write that returns success on an open handle has advanced the cursor
\* by exactly len(buffer) and has stored all of the buffer in the resource,
\* also when the primitive took it in several chunks.
C2_WriteWholeBuffer ==
  (Returned("write") /\ last.wasOpen /\ last.res = "Ok")
  => /\ file_pointer = last.pre + last.arg
     /\ last.n = last.arg
     /\ SubSeq(fs[file_name].data, last.pre + 1, last.pre + last.arg) = last.data

\* C2 witness: a successful write whose buffer was accepted in two or more chunks
C2_Witness ==
  /\ Returned("write")
  /\ last.res = "Ok"
  /\ last.chunks >= 2

\* C3: a read that returns success on an open handle has advanced the cursor by
\* the returned count, and the count does not exceed the buffer's length.
C3_ReadAdvancesByCount ==
  (Returned("read") /\ last.wasOpen /\ last.res = "Ok")
  => /\ file_pointer = last.pre + last.n
     /\ last.n <= last.arg
     /\ Len(last.data) = last.n

\* C3 witness: a successful read from the middle of the resource that returns
\* some octets but fewer than the buffer holds
C3_Witness ==
  /\ Returned("read")
  /\ last.res = "Ok"
  /\ last.pre > 0
  /\ last.n > 0
  /\ last.n < last.arg

C5_Original ==
  (Returned("set_file_pointer") /\ last.wasOpen
     /\ 0 <= last.arg /\ last.arg <= last.size)
  => (last.res = "Ok" /\ file_pointer = last.arg)

\* C5 amended: a set_file_pointer within 0..size on an open handle succeeds
\* with the cursor equal to the position unless the size query or the
\* reposition of the underlying resource fails; in that case it does not
\* return success and the cursor keeps its pre-call value.
C5_InRangeAccepted ==
  (Returned("set_file_pointer") /\ last.wasOpen
     /\ 0 <= last.arg /\ last.arg <= last.size)
  => IF last.fault = "none"
       THEN last.res = "Ok" /\ file_pointer = last.arg
       ELSE last.res /= "Ok" /\ file_pointer = last.pre

\* C5 witness: a successful move from elsewhere to position = size
C5_Witness ==
  /\ Returned("set_file_pointer")
  /\ last.wasOpen
  /\ last.arg = last.size
  /\ last.size > 0
  /\ last.pre /= last.arg
  /\ last.res = "Ok"

\* C6: once close was called on a handle, every read, write, size_of and
\* set_file_pointer on it fails with FileException carrying CF_EBADF.
C6_ClosedFailsEBADF ==
  (Returned(last.op) /\ last.op \in NonCloseOps /\ closes >= 1)
  => (last.res = "FileException" /\ last.code = "CF_EBADF")

\* C6 witness: a write of a non-empty buffer after close, following earlier
\* successful transfers on the handle
C6_Witness ==
  /\ Returned("write")
  /\ closes >= 1
  /\ last.arg > 0
  /\ last.pre > 0
  /\ last.res = "FileException"

\* C7: a second or later close returns success without aborting and leaves the
\* handle Closed with the cursor and name it had, and the other operations
\* still fail with CF_EBADF after it.
C7_CloseIdempotent ==
  /\ (Returned("close") /\ closes >= 2)
     => /\ last.res = "Ok"
        /\ pc = "idle"
        /\ ~last.wasOpen
        /\ ~file_handle.some
        /\ file_pointer = last.pre
        /\ file_name = last.name
  /\ (Returned(last.op) /\ last.op \in NonCloseOps /\ closes >= 2)
     => (last.res = "FileException" /\ last.code = "CF_EBADF"
         /\ ~file_handle.some /\ file_pointer = last.pre)

\* C7 witness: a second close on a handle whose cursor is not 0
C7_Witness ==
  /\ Returned("close")
  /\ closes >= 2
  /\ file_pointer > 0
  /\ last.res = "Ok"

\* C8 as claimed: on a handle returned by create, write(bytes) at cursor 0,
\* set_file_pointer(0) and a read with a buffer of len(bytes) succeed, the read
\* returning the bytes written with the cursor at len(bytes).  (rt reaches
\* stage 4 only through a non-empty write and a set_file_pointer(0) that
\* succeeded and a read the platform did not make fail.)
C8_RoundTrip ==
  rt.stage = 4
  => /\ last.op = "read"
     /\ last.res = "Ok"
     /\ last.n = Len(rt.bytes)
     /\ last.data = rt.bytes
     /\ file_pointer = Len(rt.bytes)

\* C9 as claimed: open of a name with no resource returns the FileException
\* variant with code CF_ENOENT, constructing no handle and not aborting.
C9_OpenMissing ==
  (pc /= "writing" /\ last.op = "open" /\ last.fault = "missing")
  => (last.res = "FileException" /\ last.code = "CF_ENOENT")

\* C10 as claimed: when the primitive reports zero octets accepted while
\* octets of the buffer remain, the write has failed (with IOException): no
\* write is still in its loop after such a report.
C10_ZeroProgressFails ==
  pc = "writing" => w.chunk /= 0

\* calls in which a failure of a platform primitive was converted
ConvertedFaults == {"env", "metadata", "seek", "access", "missing"}

\* C11 as claimed: every classification of an I/O failure is converted to
\* exactly one defined ErrorNumberType value, and the conversion never aborts.
C11_MappingTotal ==
  (pc /= "writing" /\ last.fault \in ConvertedFaults)
  => (last.res /= "panic" /\ last.code \in ErrorNumberType)

C13_FailedWriteRestoresPointer ==
  (Returned("write") /\ last.wasOpen /\ last.res = "IOException")
  => file_pointer = last.pre

\* C14 as claimed: a read on an open handle that the platform does not make
\* fail returns success; with the cursor at end-of-file the count is 0 and
\* the cursor stays, and the count never passes end-of-file.
C14_ReadAtEndOfFile ==
  (Returned("read") /\ last.wasOpen /\ last.fault /= "env")
  => /\ last.res = "Ok"
     /\ last.n <= last.size - last.pre
     /\ (last.pre = last.size => (last.n = 0 /\ file_pointer = last.pre))

\* C16 as claimed: size_of whose metadata query fails, and an in-range
\* set_file_pointer whose reposition fails, return the FileException variant
\* and leave the cursor at its pre-call value.
C16_FileExceptionOnQueryFailure ==
  (\/ (Returned("size_of") /\ last.wasOpen /\ last.fault = "env")
   \/ (Returned("set_file_pointer") /\ last.wasOpen /\ last.fault = "seek"))
  => (last.res = "FileException" /\ file_pointer = last.pre)

\* C17 as claimed: a read on an open handle whose native transfer fails, with
\* whatever classification, returns the IOException variant without aborting
\* and leaves the cursor at its pre-call value.
C17_ReadFaultIsIOException ==
  (Returned("read") /\ last.wasOpen /\ last.fault = "env")
  => (last.res = "IOException" /\ file_pointer = last.pre)

\* one step of the handle's life: a File object appears only Open, by a
\* successful open or create; it goes from Open to Closed only in a close;
\* once Closed it stays Closed
C15_Step ==
  /\ (hid' /= hid)
     => (file_handle'.some /\ last'.op \in {"open", "create"} /\ last'.res = "Ok")
  /\ (hid' = hid /\ file_handle.some /\ ~file_handle'.some)
     => last'.op = "close"
  /\ (hid' = hid /\ hid > 0 /\ ~file_handle.some)
     => ~file_handle'.some

\* C15: the handle is Open right after a successful open/create, only close
\* takes it from Open to Closed (no read, write, size_of or set_file_pointer,
\* successful or failing, releases the resource), and a Closed handle never
\* becomes Open again.
C15_OpenClosedLifecycle == [][C15_Step]_vars

\* C15 witness: a handle closed once on which a later size_of ran, still Closed
C15_Witness ==
  /\ Returned("size_of")
  /\ closes = 1
  /\ ~last.wasOpen
  /\ ~file_handle.some

\* one construction step: what create and open leave behind
C18_Step ==
  /\ (hid' /= hid /\ last'.op = "create")
     => /\ file_handle'.some
        /\ file_pointer' = 0
        /\ fs'[file_name'].exists
        /\ Len(fs'[file_name'].data) = 0
  /\ (hid' /= hid /\ last'.op = "open")
     => /\ file_handle'.some
        /\ file_pointer' = 0
        /\ fs[file_name'].exists
        /\ fs' = fs

\* C18: a successful create returns an Open handle with cursor 0 on a resource
\* of size 0, whether the resource was absent or existed with content; a
\* successful open returns an Open handle with cursor 0 and leaves the
\* resource's content and size as they were.
C18_CreateTruncatesOpenKeeps == [][C18_Step]_vars

\* C18 witness: create has just truncated a resource that held two octets
C18_Witness ==
  /\ Returned("create")
  /\ last.res = "Ok"
  /\ last.size = 2
  /\ CurrentSize = 0
  /\ file_pointer = 0
  /\ file_handle.some

\* C19: while the handle is Open the stored cursor equals the native file's
\* own offset, whatever calls succeeded or failed before.
C19_CursorIsNativeOffset ==
  file_handle.some => file_pointer = file_handle.pos

\* C19 witness: an Open handle after a write that failed with one octet out
C19_Witness ==
  /\ Returned("write")
  /\ file_handle.some
  /\ last.res /= "Ok"
  /\ last.n >= 1
  /\ file_handle.pos = last.pre + last.n

\* C20: close, size_of, file_name, file_pointer and every call on a Closed
\* handle leave the cursor and the name as they were; file_name and
\* file_pointer succeed, also after close, with the name and the cursor.
C20_CursorAndNameFrame ==
  /\ (/\ Returned(last.op)
      /\ \/ last.op \in {"close", "size_of", "file_name", "file_pointer"}
         \/ (last.op \in NonCloseOps /\ ~last.wasOpen))
     => (file_pointer = last.pre /\ file_name = last.name)
  /\ Returned("file_name") => (last.res = "Ok" /\ last.fault = file_name)
  /\ Returned("file_pointer") => (last.res = "Ok" /\ last.n = file_pointer)

\* C20 witness: file_pointer called after close returns the non-zero cursor
C20_Witness ==
  /\ Returned("file_pointer")
  /\ closes >= 1
  /\ last.res = "Ok"
  /\ last.n > 0
  /\ file_name = "a.bin"
====
